---- MODULE Spec2Model ----
(***************************************************************************)
(* Causal-graph analysis engine of CLAST (class CLASTModel, Factor, Link). *)
(*                                                                         *)
(* The model object is a record `m` with the fields of CLASTModel and of   *)
(* its Factor and Link objects that the analysis reads or writes:          *)
(*   factors       keys of MODEL.factors in insertion order (JavaScript    *)
(*                 for-in order of non-numeric string keys)                *)
(*   code          Factor.code per factor (0 = not yet assigned)           *)
(*   next_factor_number                                                    *)
(*   links         MODEL.links: link identifier -> Link object (the loops  *)
(*                 over this lookup do not depend on its key order)        *)
(*   outputs, inputs, predecessors   the lists of each Factor              *)
(*   visited, is_feedback            the Link objects having the flag set  *)
(*   path_matrix   entries [key, paths] in insertion order                 *)
(*   cycle_list    list of paths                                           *)
(*   recursed      the links at which setPredecessors made its recursive    *)
(*                 call during the last makePredecessorLists pass, one     *)
(*                 entry per call                                          *)
(*   stages        the stages of the last cleanUpFeedbackLinks pass in the  *)
(*                 order in which they were completed                      *)
(*   paper         the stored links that the diagram on UI.paper shows     *)
(*                 with the look of a feedback link                        *)
(* A Link object is the record [from_factor, to_factor]; a path is a       *)
(* sequence of factors.  List indices reported by IndexOf are zero-based,  *)
(* as in JavaScript.                                                       *)
(***************************************************************************)
EXTENDS Integers, Sequences, FiniteSets, TLC

\* Bounds of the model: the factor names the modeler can use, the number
\* of factors and links of the free-form specification Spec, and the number
\* of recompute passes run in succession without a mutation in between.
NumNames == 5
MaxFactors == 3
MaxLinks == 3
MaxPasses == 2

FactorNames == 1..NumNames

\* last_op is the operation that produced the state (for addLink with the
\* fact whether the link it was called for existed before the call); passes
\* counts the recompute passes that ran since the last change of the graph.
\* selected_cycle and show_all_cycles are the selection of the cycle button;
\* sub_clusters and cluster_factors are the clusters of the top cluster and
\* their factors; from_node, to_node, connection_to_make, modal (the list of
\* sub-factors is shown) and onmouseup (stopMakeConnection is registered)
\* are the state of the connect gesture; add_link_args holds the arguments
\* of the addLink call of the last gesture step, thrown that a handler
\* ended with an exception.
VARIABLES factors, code, next_factor_number, links, outputs, inputs,
          predecessors, visited, is_feedback, path_matrix, cycle_list,
          recursed, stages, paper,
          selected_cycle, show_all_cycles, sub_clusters, cluster_factors,
          from_node, to_node, connection_to_make, modal, onmouseup,
          add_link_args, thrown,
          last_op, passes

vars == <<factors, code, next_factor_number, links, outputs, inputs,
          predecessors, visited, is_feedback, path_matrix, cycle_list,
          recursed, stages, paper,
          selected_cycle, show_all_cycles, sub_clusters, cluster_factors,
          from_node, to_node, connection_to_make, modal, onmouseup,
          add_link_args, thrown,
          last_op, passes>>

\* ------------------------------------------------------------------------
\* List helpers (Array.prototype.indexOf / lastIndexOf / splice)
\* ------------------------------------------------------------------------

Range(s) == {s[i] : i \in 1..Len(s)}

IndexOf(s, x) ==
    IF \E i \in 1..Len(s) : s[i] = x
    THEN (CHOOSE i \in 1..Len(s) : s[i] = x /\ \A j \in 1..(i-1) : s[j] # x) - 1
    ELSE -1

LastIndexOf(s, x) ==
    IF \E i \in 1..Len(s) : s[i] = x
    THEN (CHOOSE i \in 1..Len(s) : s[i] = x /\ \A j \in (i+1)..Len(s) : s[j] # x) - 1
    ELSE -1

\* list.splice(i, 2): the entry after the indexed one goes as well
Splice_Two(s, i) == SubSeq(s, 1, i) \o SubSeq(s, i + 3, Len(s))

\* list.splice(i, 1) for a zero-based index i
Splice(s, i) == SubSeq(s, 1, i) \o SubSeq(s, i + 2, Len(s))

\* i = list.indexOf(x); if(i >= 0) list.splice(i, 1)
RemoveFirst(s, x) == IF IndexOf(s, x) >= 0 THEN Splice(s, IndexOf(s, x)) ELSE s

\* if(list.indexOf(x) < 0) list.push(x)
PushIfNew(s, x) == IF IndexOf(s, x) < 0 THEN Append(s, x) ELSE s

RECURSIVE PushAllIfNew(_, _, _)
PushAllIfNew(s, t, j) ==
    IF j > Len(t) THEN s ELSE PushAllIfNew(PushIfNew(s, t[j]), t, j + 1)

\* ------------------------------------------------------------------------
\* The model object
\* ------------------------------------------------------------------------

Model == [factors |-> factors, code |-> code,
          next_factor_number |-> next_factor_number,
          links |-> links, outputs |-> outputs, inputs |-> inputs,
          predecessors |-> predecessors, visited |-> visited,
          is_feedback |-> is_feedback, path_matrix |-> path_matrix,
          cycle_list |-> cycle_list, recursed |-> recursed,
          stages |-> stages, paper |-> paper,
          selected_cycle |-> selected_cycle,
          show_all_cycles |-> show_all_cycles,
          sub_clusters |-> sub_clusters,
          cluster_factors |-> cluster_factors,
          from_node |-> from_node,
          to_node |-> to_node,
          connection_to_make |-> connection_to_make,
          modal |-> modal,
          onmouseup |-> onmouseup,
          add_link_args |-> add_link_args,
          thrown |-> thrown]

\* The clusters the modeler may add, by name.
ClusterNames == {1, 2}

\* A node of the diagram (a factor or a cluster), and null
FactorNode(f) == [type |-> "Factor", id |-> f]

ClusterNode(c) == [type |-> "Cluster", id |-> c]

NoNode == [type |-> "null", id |-> 0]

NewModel == [factors |-> <<>>, code |-> [f \in FactorNames |-> 0],
             next_factor_number |-> 1,
             links |-> [id \in {} |-> <<>>],
             outputs |-> [f \in FactorNames |-> <<>>],
             inputs |-> [f \in FactorNames |-> <<>>],
             predecessors |-> [f \in FactorNames |-> <<>>],
             visited |-> {}, is_feedback |-> {},
             path_matrix |-> <<>>, cycle_list |-> <<>>,
             recursed |-> <<>>, stages |-> <<>>, paper |-> {},
             selected_cycle |-> -1,
             show_all_cycles |-> FALSE,
             sub_clusters |-> <<>>,
             cluster_factors |-> [c \in ClusterNames |-> <<>>],
             from_node |-> NoNode,
             to_node |-> NoNode,
             connection_to_make |-> <<>>,
             modal |-> FALSE,
             onmouseup |-> FALSE,
             add_link_args |-> <<>>,
             thrown |-> FALSE]

Link(from_f, to_f) == [from_factor |-> from_f, to_factor |-> to_f]

\* fid + '___' + tid: the factor codes are decimal number strings, so the
\* identifier determines the pair of codes
LinkIdentifier(m, from, to) == <<m.code[from], m.code[to]>>

Identifier(m, l) == LinkIdentifier(m, l.from_factor, l.to_factor)

\* this.links.hasOwnProperty(id)
HasLinkID(m, id) == id \in DOMAIN m.links

\* the Link objects of this.links
LinkObjects(m) == {m.links[id] : id \in DOMAIN m.links}

\* ------------------------------------------------------------------------
\* Graph store
\* ------------------------------------------------------------------------

AddFactorModel(m, name) ==
    [m EXCEPT !.factors = Append(@, name),
              !.code[name] = m.next_factor_number + 1,
              !.next_factor_number = @ + 1]

\* this.links[l.identifier] = l
StoreLink(m, l) ==
    [id \in DOMAIN m.links \cup {Identifier(m, l)} |->
       IF id = Identifier(m, l) THEN l ELSE m.links[id]]

\* delete this.links[id]
UnstoreLink(m, id) == [k \in DOMAIN m.links \ {id} |-> m.links[k]]

\* addLink without the lookup of an existing link
AddLinkModel_NoLookup(m, from_f, to_f) ==
    LET l == Link(from_f, to_f) IN
    [m EXCEPT !.links = StoreLink(m, l),
              !.is_feedback = @ \ {l},
              !.visited = @ \ {l},
              !.outputs[from_f] = Append(@, l),
              !.inputs[to_f] = Append(@, l)]

AddLinkModel(m, from_f, to_f) ==
    IF HasLinkID(m, LinkIdentifier(m, from_f, to_f))
    THEN m
    ELSE LET l == Link(from_f, to_f) IN
         \* new Link: is_feedback = false, visited = false
         [m EXCEPT !.links = StoreLink(m, l),
                   !.is_feedback = @ \ {l},
                   !.visited = @ \ {l},
                   !.outputs[from_f] = Append(@, l),
                   !.inputs[to_f] = Append(@, l)]

\* ------------------------------------------------------------------------
\* Path enumerator
\* ------------------------------------------------------------------------

HasPathKey(m, k) == \E i \in 1..Len(m.path_matrix) : m.path_matrix[i].key = k

\* this.path_matrix[k] = paths
PathMatrixSet(m, k, paths) ==
    IF HasPathKey(m, k)
    THEN [m EXCEPT !.path_matrix =
            [i \in 1..Len(m.path_matrix) |->
               IF m.path_matrix[i].key = k
               THEN [key |-> k, paths |-> paths] ELSE m.path_matrix[i]]]
    ELSE [m EXCEPT !.path_matrix = Append(@, [key |-> k, paths |-> paths])]

\* this.path_matrix[k].push(p)
PathMatrixPush(m, k, p) ==
    [m EXCEPT !.path_matrix =
       [i \in 1..Len(m.path_matrix) |->
          IF m.path_matrix[i].key = k
          THEN [key |-> k, paths |-> Append(m.path_matrix[i].paths, p)]
          ELSE m.path_matrix[i]]]

PathsOf(m, k) ==
    IF HasPathKey(m, k)
    THEN (CHOOSE e \in Range(m.path_matrix) : e.key = k).paths
    ELSE <<>>

\* a path that returns to its second factor is recorded as well
SproutAdds_UpToSecond(tfi) == tfi <= 1

\* a path that returns to its origin is not recorded
SproutAdds_NewOnly(tfi) == tfi < 0

\* if(tfi <= 0): the TO factor is new to the path or is its origin
SproutAdds(tfi) == tfi <= 0

\* if(tfi < 0): recurse only when the TO factor is new to the path
SproutRecurses(tfi) == tfi < 0

RECURSIVE SproutPathsFrom(_, _)
RECURSIVE SproutLoop(_, _, _)
SproutLoop(m, path, i) ==
    LET linksout == m.outputs[path[Len(path)]] IN
    IF i > Len(linksout) THEN m
    ELSE LET tf == linksout[i].to_factor
             tfi == IndexOf(path, tf)
             p == Append(path, tf)
             m1 == IF SproutAdds(tfi) THEN PathMatrixPush(m, p[1], p) ELSE m
             m2 == IF SproutAdds(tfi) /\ SproutRecurses(tfi)
                   THEN SproutPathsFrom(m1, p) ELSE m1
         IN SproutLoop(m2, path, i + 1)

SproutPathsFrom(m, path) == SproutLoop(m, path, 1)

\* Body of the loop over the outgoing links of factor k in buildPathMatrix.
FirstPaths(m, k, path) ==
    LET m1 == PathMatrixSet(m, k, <<path>>) IN
    IF path[1] # path[2] THEN SproutPathsFrom(m1, path) ELSE m1

RECURSIVE PathsFromFactor(_, _, _)
PathsFromFactor(m, k, j) ==
    IF j > Len(m.outputs[k]) THEN m
    ELSE PathsFromFactor(FirstPaths(m, k, <<k, m.outputs[k][j].to_factor>>),
                         k, j + 1)

RECURSIVE PathsFromAll(_, _)
PathsFromAll(m, i) ==
    IF i > Len(m.factors) THEN m
    ELSE PathsFromAll(PathsFromFactor(m, m.factors[i], 1), i + 1)

\* ------------------------------------------------------------------------
\* Cycle registry
\* ------------------------------------------------------------------------

\* intersection(p, c): the elements of list p that also occur in list c
Intersection(p, c) == SelectSeq(p, LAMBDA x : \E i \in 1..Len(c) : c[i] = x)

\* only a cycle with the same factors at the same positions is the same
SameCycle_Identical(p, c) == p = c

\* two cycles of equal length are taken for the same cycle
SameCycle_LengthOnly(p, c) == Len(p) = Len(c)

\* p.length === c.length && intersection(p, c).length === p.length
SameCycle(p, c) == Len(p) = Len(c) /\ Len(Intersection(p, c)) = Len(p)

\* the loop over cycle_list that sets `known`
Known(cl, p) == \E j \in 1..Len(cl) : SameCycle(p, cl[j])

\* every recorded path is taken for a cycle
IsCycleCandidate_Always(p) == Len(p) >= 2

\* if(p[0] === p[p.length - 1])
IsCycleCandidate(p) == p[1] = p[Len(p)]

\* Body of the loop over the paths of one path_matrix entry.
RegisterPath(cl, p) ==
    IF IsCycleCandidate(p) /\ ~Known(cl, p) THEN Append(cl, p) ELSE cl

RECURSIVE RegisterPaths(_, _, _)
RegisterPaths(cl, pl, i) ==
    IF i > Len(pl) THEN cl
    ELSE RegisterPaths(RegisterPath(cl, pl[i]), pl, i + 1)

RECURSIVE RegisterAll(_, _, _)
RegisterAll(cl, pm, n) ==
    IF n > Len(pm) THEN cl
    ELSE RegisterAll(RegisterPaths(cl, pm[n].paths, 1), pm, n + 1)

\* the cycles of the previous pass are not removed from cycle_list
BuildPathMatrix_KeepCycles(m) ==
    LET m1 == PathsFromAll([m EXCEPT !.path_matrix = <<>>], 1) IN
    [m1 EXCEPT !.cycle_list = RegisterAll(m.cycle_list, m1.path_matrix, 1),
               !.stages = Append(@, "buildPathMatrix")]

BuildPathMatrix(m) ==
    LET m1 == PathsFromAll([m EXCEPT !.path_matrix = <<>>], 1) IN
    [m1 EXCEPT !.cycle_list = RegisterAll(<<>>, m1.path_matrix, 1),
               !.stages = Append(@, "buildPathMatrix")]

\* ------------------------------------------------------------------------
\* Predecessor closure
\* ------------------------------------------------------------------------

RECURSIVE SetPredecessors(_, _)
RECURSIVE SetPredecessorsLoop(_, _, _)
SetPredecessorsLoop(m, this, i) ==
    IF i > Len(m.inputs[this]) THEN m
    ELSE LET l == m.inputs[this][i]
             v == l \in m.visited
             ff == l.from_factor
             m1 == [m EXCEPT !.visited = @ \cup {l},
                             !.predecessors[this] = PushIfNew(@, ff)]
             m2 == IF ~v
                   THEN SetPredecessors([m1 EXCEPT !.recursed = Append(@, l)], ff)
                   ELSE m1
             m3 == [m2 EXCEPT !.predecessors[this] =
                                 PushAllIfNew(@, m2.predecessors[ff], 1)]
         IN SetPredecessorsLoop(m3, this, i + 1)

SetPredecessors(m, this) == SetPredecessorsLoop(m, this, 1)

\* the visited marks are unset again before the list of each factor is made
RECURSIVE SetAllPredecessors_ResetPerFactor(_, _)
SetAllPredecessors_ResetPerFactor(m, i) ==
    IF i > Len(m.factors) THEN m
    ELSE SetAllPredecessors_ResetPerFactor(
            SetPredecessors([m EXCEPT !.visited = @ \ LinkObjects(m)],
                            m.factors[i]),
            i + 1)

RECURSIVE SetAllPredecessors(_, _)
SetAllPredecessors(m, i) ==
    IF i > Len(m.factors) THEN m
    ELSE SetAllPredecessors(SetPredecessors(m, m.factors[i]), i + 1)

\* the visited flags of the links are not unset
ResetLists_KeepVisited(m) ==
    [m EXCEPT !.predecessors =
                 [f \in FactorNames |->
                    IF f \in Range(m.factors) THEN <<>> ELSE m.predecessors[f]]]

\* The two reset loops of makePredecessorLists.
ResetLists(m) ==
    [m EXCEPT !.predecessors =
                 [f \in FactorNames |->
                    IF f \in Range(m.factors) THEN <<>> ELSE m.predecessors[f]],
              !.visited = @ \ LinkObjects(m)]

MakePredecessorLists(m) ==
    LET m1 == SetAllPredecessors([ResetLists(m) EXCEPT !.recursed = <<>>], 1)
    IN [m1 EXCEPT !.stages = Append(@, "makePredecessorLists")]

\* ------------------------------------------------------------------------
\* Feedback classifier
\* ------------------------------------------------------------------------

\* the test with FROM and TO factor exchanged
FeedbackTest_Reversed(m, l) ==
    IndexOf(m.predecessors[l.to_factor], l.from_factor) >= 0

\* l.from_factor.predecessors.indexOf(l.to_factor) >= 0
FeedbackTest(m, l) == IndexOf(m.predecessors[l.from_factor], l.to_factor) >= 0

\* Paper.drawModel(mdl) clears the paper and draws every link, Paper.drawLink
\* draws a link with the feedback look if l.is_feedback
DrawModel(m) == [m EXCEPT !.paper = LinkObjects(m) \cap m.is_feedback]

DrawLink(m, l) == [m EXCEPT !.paper = (@ \ {l}) \cup ({l} \cap m.is_feedback)]

\* makePredecessorLists is called before buildPathMatrix
CleanUpFeedbackLinks_ClosureFirst(m) ==
    LET m1 == MakePredecessorLists([m EXCEPT !.stages = <<>>])
        m2 == BuildPathMatrix(m1)
        m3 == [m2 EXCEPT !.is_feedback =
                 (@ \ LinkObjects(m2)) \cup
                 {l \in LinkObjects(m2) : FeedbackTest(m2, l)},
                         !.stages = Append(@, "is_feedback")]
        redraw == \E l \in LinkObjects(m) :
                     (l \in m.is_feedback) # (l \in m3.is_feedback)
    IN IF redraw THEN DrawModel(m3) ELSE m3

CleanUpFeedbackLinks(m) ==
    LET m1 == BuildPathMatrix([m EXCEPT !.stages = <<>>])
        m2 == MakePredecessorLists(m1)
        m3 == [m2 EXCEPT !.is_feedback =
                 (@ \ LinkObjects(m2)) \cup
                 {l \in LinkObjects(m2) : FeedbackTest(m2, l)},
                         !.stages = Append(@, "is_feedback")]
        redraw == \E l \in LinkObjects(m) :
                     (l \in m.is_feedback) # (l \in m3.is_feedback)
    IN IF redraw THEN DrawModel(m3) ELSE m3

\* deleteLink without the call of cleanUpFeedbackLinks at its end
DeleteLinkModel_NoCleanUp(m, link) ==
    LET m1 == [m EXCEPT !.outputs[link.from_factor] = RemoveFirst(@, link),
                        !.inputs[link.to_factor] = RemoveFirst(@, link)]
    IN [m1 EXCEPT !.links = UnstoreLink(m1, Identifier(m1, link)),
                  !.is_feedback = @ \ {link},
                  !.visited = @ \ {link},
                  !.paper = @ \ {link}]

\* deleteLink that leaves the link in the outputs list of its FROM factor
DeleteLinkModel_KeepOutput(m, link) ==
    LET m1 == [m EXCEPT !.inputs[link.to_factor] = RemoveFirst(@, link)]
        m2 == [m1 EXCEPT !.links = UnstoreLink(m1, Identifier(m1, link)),
                         !.is_feedback = @ \ {link},
                         !.visited = @ \ {link},
                         !.paper = @ \ {link}]
    IN CleanUpFeedbackLinks(m2)

DeleteLinkModel(m, link) ==
    LET m1 == [m EXCEPT !.outputs[link.from_factor] = RemoveFirst(@, link),
                        !.inputs[link.to_factor] = RemoveFirst(@, link)]
        \* delete this.links[link.identifier]; the deleted object's flags
        \* and its drawing are dropped with it
        m2 == [m1 EXCEPT !.links = UnstoreLink(m1, Identifier(m1, link)),
                         !.is_feedback = @ \ {link},
                         !.visited = @ \ {link},
                         !.paper = @ \ {link}]
    IN CleanUpFeedbackLinks(m2)

\* The value of a property that an object does not have.  A Link object has
\* the properties from_factor and to_factor; deleteFactor reads l.from_node
\* and l.to_node.
Undefined == 0

\* for(let l in this.links) if(l.from_node == node || l.to_node == node)
\*   this.deleteLink(l)
LinksOfNode(m, node) ==
    {l \in LinkObjects(m) : Undefined = node \/ Undefined = node}

RECURSIVE DeleteLinksIn(_, _)
DeleteLinksIn(m, ls) ==
    IF ls \cap LinkObjects(m) = {} THEN m
    ELSE LET l == CHOOSE x \in ls \cap LinkObjects(m) : TRUE
         IN DeleteLinksIn(DeleteLinkModel(m, l), ls \ {l})

\* node.parent.deleteFactor(node): the cluster takes the factor off its
\* own list of factors, which the analysis does not read.
ClusterDeleteFactor(m, node) == m

\* MODEL.deleteFactor(node).  The Factor object stays what the links that
\* are still stored refer to.
DeleteFactorModel(m, node) ==
    LET m1 == DeleteLinksIn(m, LinksOfNode(m, node))
        m2 == ClusterDeleteFactor(m1, node)
    IN [m2 EXCEPT !.factors = RemoveFirst(@, node)]

\* Link.cycleNumbers with MODEL.show_all_cycles = true
CycleNumbers(m, l) ==
    {i \in 0..(Len(m.cycle_list) - 1) :
       LET c == m.cycle_list[i + 1]
           ffi == IndexOf(c, l.from_factor)
       IN ffi >= 0 /\ LastIndexOf(c, l.to_factor) = ffi + 1}

\* ------------------------------------------------------------------------
\* State machine
\* ------------------------------------------------------------------------

Install(m) ==
    /\ factors' = m.factors
    /\ code' = m.code
    /\ next_factor_number' = m.next_factor_number
    /\ links' = m.links
    /\ outputs' = m.outputs
    /\ inputs' = m.inputs
    /\ predecessors' = m.predecessors
    /\ visited' = m.visited
    /\ is_feedback' = m.is_feedback
    /\ path_matrix' = m.path_matrix
    /\ cycle_list' = m.cycle_list
    /\ recursed' = m.recursed
    /\ stages' = m.stages
    /\ paper' = m.paper
    /\ selected_cycle' = m.selected_cycle
    /\ show_all_cycles' = m.show_all_cycles
    /\ sub_clusters' = m.sub_clusters
    /\ cluster_factors' = m.cluster_factors
    /\ from_node' = m.from_node
    /\ to_node' = m.to_node
    /\ connection_to_make' = m.connection_to_make
    /\ modal' = m.modal
    /\ onmouseup' = m.onmouseup
    /\ add_link_args' = m.add_link_args
    /\ thrown' = m.thrown

Init ==
    /\ factors = NewModel.factors
    /\ code = NewModel.code
    /\ next_factor_number = NewModel.next_factor_number
    /\ links = NewModel.links
    /\ outputs = NewModel.outputs
    /\ inputs = NewModel.inputs
    /\ predecessors = NewModel.predecessors
    /\ visited = NewModel.visited
    /\ is_feedback = NewModel.is_feedback
    /\ path_matrix = NewModel.path_matrix
    /\ cycle_list = NewModel.cycle_list
    /\ recursed = NewModel.recursed
    /\ stages = NewModel.stages
    /\ paper = NewModel.paper
    /\ selected_cycle = NewModel.selected_cycle
    /\ show_all_cycles = NewModel.show_all_cycles
    /\ sub_clusters = NewModel.sub_clusters
    /\ cluster_factors = NewModel.cluster_factors
    /\ from_node = NewModel.from_node
    /\ to_node = NewModel.to_node
    /\ connection_to_make = NewModel.connection_to_make
    /\ modal = NewModel.modal
    /\ onmouseup = NewModel.onmouseup
    /\ add_link_args = NewModel.add_link_args
    /\ thrown = NewModel.thrown
    /\ last_op = <<"new">>
    /\ passes = 0

\* MODEL.addFactor(name) for a name that is not in use
AddFactor(name) ==
    /\ name \in FactorNames
    /\ name \notin Range(factors)
    /\ Install(AddFactorModel(Model, name))
    /\ last_op' = <<"addFactor">>
    /\ passes' = 0

\* MODEL.addLink(from_f, to_f) for two factors of the model
AddLink(from_f, to_f) ==
    /\ from_f \in Range(factors)
    /\ to_f \in Range(factors)
    /\ Install(AddLinkModel(Model, from_f, to_f))
    /\ last_op' = <<"addLink",
                    IF HasLinkID(Model, LinkIdentifier(Model, from_f, to_f))
                    THEN "existing" ELSE "new">>
    /\ passes' = IF HasLinkID(Model, LinkIdentifier(Model, from_f, to_f))
                 THEN passes ELSE 0

\* MODEL.deleteLink(link) for a link of the model
DeleteLink(link) ==
    /\ link \in LinkObjects(Model)
    /\ Install(DeleteLinkModel(Model, link))
    /\ last_op' = <<"deleteLink">>
    /\ passes' = 1

\* MODEL.cleanUpFeedbackLinks()
Recompute ==
    /\ passes < MaxPasses
    /\ Install(CleanUpFeedbackLinks(Model))
    /\ last_op' = <<"cleanUpFeedbackLinks">>
    /\ passes' = passes + 1

\* Factor names are opaque strings: the i-th factor added is called i, so
\* that the store iterates the factors in the order 1, 2, ...; every
\* iteration order of a given graph occurs as a graph over these names.
AddNextFactor(limit) ==
    /\ Len(factors) < limit
    /\ AddFactor(Len(factors) + 1)

\* The modeler draws a link that exists already, or a new one while there
\* is room.
AddAnyLink ==
    \E from_f \in Range(factors), to_f \in Range(factors) :
       /\ HasLinkID(Model, LinkIdentifier(Model, from_f, to_f))
             \/ Cardinality(DOMAIN links) < MaxLinks
       /\ AddLink(from_f, to_f)

DeleteAnyLink == \E link \in LinkObjects(Model) : DeleteLink(link)

Next ==
    \/ AddNextFactor(MaxFactors)
    \/ AddAnyLink
    \/ DeleteAnyLink
    \/ Recompute

Spec == Init /\ [][Next]_vars

\* The modeler draws only links of a given diagram, in any order.
FactorsOf(diagram) ==
    {l.from_factor : l \in diagram} \cup {l.to_factor : l \in diagram}

AddLinkOf(diagram) ==
    \E l \in diagram : AddLink(l.from_factor, l.to_factor)

\* A ring of three factors and an unrelated link.
RingLinks == {Link(1, 2), Link(2, 3), Link(3, 1)}

RingDiagram == RingLinks \cup {Link(4, 5)}

NextRing ==
    \/ AddNextFactor(Cardinality(FactorsOf(RingDiagram)))
    \/ AddLinkOf(RingDiagram)
    \/ DeleteAnyLink
    \/ Recompute

SpecRing == Init /\ [][NextRing]_vars

\* A ring of four factors 1 -> 3 -> 2 -> 4 -> 1 with the detour 2 -> 5 -> 4.
DetourDiagram == {Link(1, 3), Link(3, 2), Link(2, 4), Link(4, 1),
                  Link(2, 5), Link(5, 4)}

NextDetour ==
    \/ AddNextFactor(Cardinality(FactorsOf(DetourDiagram)))
    \/ AddLinkOf(DetourDiagram)
    \/ DeleteAnyLink
    \/ Recompute

SpecDetour == Init /\ [][NextDetour]_vars

\* MODEL.deleteFactor(node) for a factor of the model
DeleteFactor(node) ==
    /\ node \in Range(factors)
    /\ Install(DeleteFactorModel(Model, node))
    /\ last_op' = <<"deleteFactor">>
    /\ passes' = 0

\* A factor added after a deletion is a new Factor object, also when it
\* takes the name of the deleted one: the i-th Factor object made is called
\* i (its code is i + 1).
AddFreshFactor(limit) ==
    /\ next_factor_number <= limit
    /\ AddFactor(next_factor_number)

DeleteAnyFactor == \E node \in Range(factors) : DeleteFactor(node)

\* The modeler draws links of a ring of three factors and deletes links
\* and factors.
NextDelete ==
    \/ AddFreshFactor(Cardinality(FactorsOf(RingLinks)))
    \/ AddLinkOf(RingLinks)
    \/ DeleteAnyLink
    \/ DeleteAnyFactor
    \/ Recompute

SpecDelete == Init /\ [][NextDelete]_vars

\* The ring 1 -> 2 -> 3 -> 1 and the ring 1 -> 3 -> 2 -> 1 through the same
\* three factors.
TwoRingsDiagram == RingLinks \cup {Link(1, 3), Link(3, 2), Link(2, 1)}

NextTwoRings ==
    \/ AddNextFactor(Cardinality(FactorsOf(TwoRingsDiagram)))
    \/ AddLinkOf(TwoRingsDiagram)
    \/ DeleteAnyLink
    \/ Recompute

SpecTwoRings == Init /\ [][NextTwoRings]_vars

\* ------------------------------------------------------------------------
\* Handlers of the modeler's gestures (controller)
\* ------------------------------------------------------------------------

\* UI.completeConnection() with connection_to_make.ffact and .tfact set and
\* no sub-factors: addLink, drawObject(l), cleanUpFeedbackLinks
CompleteConnectionModel(m, ffact, tfact) ==
    LET m1 == AddLinkModel(m, ffact, tfact)
        m2 == DrawLink(m1, Link(ffact, tfact))
    IN CleanUpFeedbackLinks(m2)

CompleteConnection(ffact, tfact) ==
    /\ ffact \in Range(factors)
    /\ tfact \in Range(factors)
    /\ Install(CompleteConnectionModel(Model, ffact, tfact))
    /\ last_op' = <<"completeConnection">>
    /\ passes' = 1

\* addEntityFromNode for the link nodes of the pasted XML, in their order;
\* a link node names two factors of the model
RECURSIVE AddEntitiesFromNodes(_, _, _)
AddEntitiesFromNodes(m, nodes, i) ==
    IF i > Len(nodes) THEN m
    ELSE AddEntitiesFromNodes(
            AddLinkModel(m, nodes[i].from_factor, nodes[i].to_factor),
            nodes, i + 1)

\* UI.pasteSelection() when nothing is prompted for and no name conflicts:
\* add all entities, then UI.drawDiagram(MODEL)
PasteSelectionModel(m, nodes) == DrawModel(AddEntitiesFromNodes(m, nodes, 1))

PasteSelection(nodes) ==
    /\ \A i \in 1..Len(nodes) :
          nodes[i].from_factor \in Range(factors) /\
          nodes[i].to_factor \in Range(factors)
    /\ Install(PasteSelectionModel(Model, nodes))
    /\ last_op' = <<"pasteSelection">>
    /\ passes' = IF \A i \in 1..Len(nodes) : nodes[i] \in LinkObjects(Model)
                 THEN passes ELSE 0

\* MODEL.deleteSelection() with the selection holding links only:
\* deleteLink for each of them (last selected first), then
\* UI.drawDiagram(this)
RECURSIVE DeleteSelectedLinks(_, _, _)
DeleteSelectedLinks(m, selection, i) ==
    IF i < 1 THEN m
    ELSE DeleteSelectedLinks(DeleteLinkModel(m, selection[i]), selection, i - 1)

DeleteSelectionModel(m, selection) ==
    DrawModel(DeleteSelectedLinks(m, selection, Len(selection)))

DeleteSelection(selection) ==
    /\ Len(selection) >= 1
    /\ \A i \in 1..Len(selection) : selection[i] \in LinkObjects(Model)
    /\ Install(DeleteSelectionModel(Model, selection))
    /\ last_op' = <<"deleteSelection">>
    /\ passes' = 1

\* the lists without repetition of links of a set
ListsOf(S) ==
    {s \in UNION {[1..n -> S] : n \in 1..Cardinality(S)} :
       \A i, j \in 1..Len(s) : s[i] = s[j] => i = j}

\* The modeler connects, pastes and deletes links of the ring diagram.
NextGesture ==
    \/ AddNextFactor(Cardinality(FactorsOf(RingDiagram)))
    \/ \E l \in RingDiagram : CompleteConnection(l.from_factor, l.to_factor)
    \/ \E nodes \in ListsOf(RingDiagram) : PasteSelection(nodes)
    \/ \E selection \in ListsOf(LinkObjects(Model)) : DeleteSelection(selection)
    \/ Recompute

SpecGesture == Init /\ [][NextGesture]_vars

\* UI.highlightCycle(event): the click on the cycle button
HighlightCycleModel(m, altKey, shiftKey) ==
    LET nc == Len(m.cycle_list)
        sc == m.selected_cycle
    IN IF nc = 0
       THEN [m EXCEPT !.show_all_cycles = FALSE, !.selected_cycle = -1]
       ELSE DrawModel(
              IF altKey
              THEN [m EXCEPT !.show_all_cycles = ~@, !.selected_cycle = -1]
              ELSE [m EXCEPT !.show_all_cycles = FALSE,
                             !.selected_cycle =
                                IF sc < 0 THEN 0
                                ELSE IF shiftKey
                                     THEN (IF sc - 1 < 0 THEN nc - 1 ELSE sc - 1)
                                     ELSE (IF sc + 1 >= nc THEN 0 ELSE sc + 1)])

HighlightCycle(altKey, shiftKey) ==
    /\ Install(HighlightCycleModel(Model, altKey, shiftKey))
    /\ last_op' = <<"highlightCycle", altKey, shiftKey>>
    /\ passes' = passes

\* Two rings of two factors that share factor 2.
CyclesDiagram == {Link(1, 2), Link(2, 1), Link(2, 3), Link(3, 2)}

\* The modeler draws and deletes links of the two rings and clicks the
\* cycle button.
NextCycles ==
    \/ AddNextFactor(Cardinality(FactorsOf(CyclesDiagram)))
    \/ AddLinkOf(CyclesDiagram)
    \/ DeleteAnyLink
    \/ Recompute
    \/ \E altKey \in BOOLEAN, shiftKey \in BOOLEAN :
          HighlightCycle(altKey, shiftKey)

SpecCycles == Init /\ [][NextCycles]_vars


\* ------------------------------------------------------------------------
\* The connect gesture on the node rims (controller)
\* ------------------------------------------------------------------------

IsFactor(n) == n.type = "Factor"

IsCluster(n) == n.type = "Cluster"

\* node.factors of a cluster node
FactorsIn(m, n) == m.cluster_factors[n.id]

\* Cluster.allFactors; the clusters of the diagram have no sub-clusters
AllFactors(m, n) == [i \in 1..Len(FactorsIn(m, n)) |-> FactorNode(FactorsIn(m, n)[i])]

\* MODEL.areLinked(f1, f2): only links between two factors are in
\* MODEL.links, under the codes of the factors
AreLinked(m, f1, f2) ==
    /\ f1 # NoNode
    /\ f2 # NoNode
    /\ IsFactor(f1) /\ IsFactor(f2)
    /\ \/ HasLinkID(m, LinkIdentifier(m, f1.id, f2.id))
       \/ HasLinkID(m, LinkIdentifier(m, f2.id, f1.id))

\* MODEL.addCluster(name) for a name that is not in use
AddClusterModel(m, c) == [m EXCEPT !.sub_clusters = Append(@, c)]

\* Factor.setCluster(c): leave the list of the parent, join the list of c
SetClusterModel(m, f, c) ==
    [m EXCEPT !.cluster_factors =
        [k \in ClusterNames |->
           IF k = c THEN PushIfNew(RemoveFirst(@[k], f), f)
           ELSE RemoveFirst(@[k], f)]]

\* MODEL.dropSelectionIntoCluster(c) with the factor f selected
DropSelectionIntoClusterModel(m, f, c) == DrawModel(SetClusterModel(m, f, c))

\* the factors of the top cluster
TopFactors(m) ==
    {f \in Range(m.factors) :
        \A c \in ClusterNames : f \notin Range(m.cluster_factors[c])}

\* the nodes that are drawn with a rim: the factors and the clusters of the
\* top cluster
RimNodes(m) ==
    {FactorNode(f) : f \in TopFactors(m)} \cup
    {ClusterNode(c) : c \in Range(m.sub_clusters)}

\* rimMouseOver: the node that becomes UI.to_node, without the test of
\* areLinked
RimMouseOverTarget_NoLinkTest(m, node) ==
    IF \/ node = m.from_node
       \/ (IsCluster(node) /\ Len(FactorsIn(m, node)) = 0)
    THEN NoNode
    ELSE node

\* rimMouseOver: the node that becomes UI.to_node
RimMouseOverTarget(m, node) ==
    IF \/ node = m.from_node
       \/ (IsCluster(node) /\ Len(FactorsIn(m, node)) = 0)
       \/ AreLinked(m, m.from_node, node)
    THEN NoNode
    ELSE node

RimMouseOverModel(m, node) ==
    [m EXCEPT !.to_node = RimMouseOverTarget(m, node),
              !.add_link_args = <<>>]

RimMouseOutModel(m, node) ==
    [m EXCEPT !.to_node = IF node # m.from_node THEN NoNode ELSE @,
              !.add_link_args = <<>>]

RimMouseDownModel(m, node) ==
    IF IsFactor(node) \/ (IsCluster(node) /\ Len(FactorsIn(m, node)) > 0)
    THEN [m EXCEPT !.from_node = node, !.to_node = NoNode,
                   !.onmouseup = TRUE, !.add_link_args = <<>>]
    ELSE [m EXCEPT !.from_node = NoNode, !.to_node = NoNode,
                   !.add_link_args = <<>>]

\* UI.completeConnection(): MODEL.addLink(ctm.ffact, ctm.tfact) if both are
\* set.  With a cluster as ffact or tfact addLink stores a link and then
\* fails on from_f.outputs or to_f.inputs, which a cluster does not have:
\* the handler ends there with an exception (thrown).
CompleteConnectionUI(m) ==
    LET ctm == m.connection_to_make[1]
        m0 == [m EXCEPT !.modal = FALSE, !.onmouseup = FALSE]
        subs == Len(ctm.fsub) > 0 \/ Len(ctm.tsub) > 0
        done(x) == [x EXCEPT !.connection_to_make = <<>>,
                             !.from_node = NoNode, !.to_node = NoNode]
    IN IF ctm.ffact # NoNode /\ ctm.tfact # NoNode
       THEN LET m1 == [m0 EXCEPT !.add_link_args = <<ctm.ffact, ctm.tfact>>]
            IN IF IsFactor(ctm.ffact) /\ IsFactor(ctm.tfact)
               THEN IF subs
                    THEN done(CleanUpFeedbackLinks(DrawModel(
                            AddLinkModel(m1, ctm.ffact.id, ctm.tfact.id))))
                    ELSE done(CompleteConnectionModel(
                            m1, ctm.ffact.id, ctm.tfact.id))
               ELSE [m1 EXCEPT !.thrown = TRUE]
       ELSE done([m0 EXCEPT !.add_link_args = <<>>])

\* UI.promptForFactors(): shows the lists of sub-factors; it reads
\* ctm.tfact.width, which fails when the gesture has no TO node
PromptForFactors(m) ==
    IF m.connection_to_make[1].tfact = NoNode THEN m
    ELSE [m EXCEPT !.modal = TRUE]

\* stopMakeConnection: the mouse button is released
StopMakeConnectionModel(m) ==
    LET fnode == m.from_node
        tnode == m.to_node
        ctm == [fnode |-> fnode, tnode |-> tnode,
                ffact |-> fnode, tfact |-> tnode,
                fsub |-> IF IsCluster(fnode) THEN AllFactors(m, fnode) ELSE <<>>,
                tsub |-> IF IsCluster(tnode) THEN AllFactors(m, tnode) ELSE <<>>]
        m1 == [m EXCEPT !.onmouseup = FALSE, !.connection_to_make = <<ctm>>,
                        !.add_link_args = <<>>]
    IN IF Len(ctm.fsub) > 0 \/ Len(ctm.tsub) > 0
       THEN PromptForFactors(m1)
       ELSE CompleteConnectionUI(m1)

\* UI.connectFactor(from_to, id) for a factor of the list that is shown
ConnectFactorModel(m, from_to, id) ==
    CompleteConnectionUI(
       IF from_to = "from"
       THEN [m EXCEPT !.connection_to_make[1].ffact = FactorNode(id)]
       ELSE [m EXCEPT !.connection_to_make[1].tfact = FactorNode(id)])


\* The link button is active (UI.canLink()) and the list of sub-factors,
\* while it is shown, covers the diagram.
AddCluster(c) ==
    /\ c \in ClusterNames \ Range(sub_clusters)
    /\ ~thrown
    /\ Install(AddClusterModel(Model, c))
    /\ last_op' = <<"addCluster">>
    /\ passes' = passes

DropSelectionIntoCluster(f, c) ==
    /\ f \in TopFactors(Model)
    /\ c \in Range(sub_clusters)
    /\ ~modal /\ ~thrown
    /\ Install(DropSelectionIntoClusterModel(Model, f, c))
    /\ last_op' = <<"dropSelectionIntoCluster">>
    /\ passes' = passes

RimMouseDown(node) ==
    /\ node \in RimNodes(Model)
    /\ ~modal /\ ~thrown
    /\ Cardinality(DOMAIN links) < MaxLinks
    /\ Install(RimMouseDownModel(Model, node))
    /\ last_op' = <<"rimMouseDown">>
    /\ passes' = passes

RimMouseOver(node) ==
    /\ node \in RimNodes(Model)
    /\ ~modal /\ ~thrown
    /\ Install(RimMouseOverModel(Model, node))
    /\ last_op' = <<"rimMouseOver">>
    /\ passes' = passes

RimMouseOut(node) ==
    /\ node \in RimNodes(Model)
    /\ ~modal /\ ~thrown
    /\ Install(RimMouseOutModel(Model, node))
    /\ last_op' = <<"rimMouseOut">>
    /\ passes' = passes

\* the passes counter after a handler that may have ended in
\* completeConnection
PassesAfter(m) ==
    IF m.thrown THEN 0
    ELSE IF Len(m.add_link_args) > 0 THEN 1
    ELSE passes

StopMakeConnection ==
    /\ onmouseup
    /\ ~modal /\ ~thrown
    /\ Install(StopMakeConnectionModel(Model))
    /\ last_op' = <<"stopMakeConnection">>
    /\ passes' = PassesAfter(StopMakeConnectionModel(Model))

ConnectFactor(from_to, id) ==
    /\ modal /\ ~thrown
    /\ FactorNode(id) \in
          Range(IF from_to = "from" THEN connection_to_make[1].fsub
                ELSE connection_to_make[1].tsub)
    /\ Install(ConnectFactorModel(Model, from_to, id))
    /\ last_op' = <<"connectFactor">>
    /\ passes' = PassesAfter(ConnectFactorModel(Model, from_to, id))

\* The modeler adds three factors and makes connections by dragging from
\* rim to rim, and deletes links.
ConnectFactors == {1, 2, 3}

NextConnect ==
    \/ AddNextFactor(Cardinality(ConnectFactors))
    \/ \E node \in RimNodes(Model) : RimMouseDown(node)
    \/ \E node \in RimNodes(Model) : RimMouseOver(node)
    \/ \E node \in RimNodes(Model) : RimMouseOut(node)
    \/ StopMakeConnection
    \/ DeleteAnyLink

SpecConnect == Init /\ [][NextConnect]_vars

\* The modeler adds three factors and two clusters, drops factor 2 into
\* cluster 1 and factor 3 into cluster 2, and makes connections by dragging
\* from rim to rim and choosing sub-factors.
ClusterArrangement == {<<2, 1>>, <<3, 2>>}

NextConnectClusters ==
    \/ AddNextFactor(Cardinality(ConnectFactors))
    \/ \E c \in ClusterNames : AddCluster(c)
    \/ \E a \in ClusterArrangement : DropSelectionIntoCluster(a[1], a[2])
    \/ \E node \in RimNodes(Model) : RimMouseDown(node)
    \/ \E node \in RimNodes(Model) : RimMouseOver(node)
    \/ \E node \in RimNodes(Model) : RimMouseOut(node)
    \/ StopMakeConnection
    \/ \E from_to \in {"from", "to"}, id \in Range(factors) :
          ConnectFactor(from_to, id)

SpecConnectClusters == Init /\ [][NextConnectClusters]_vars


\* ------------------------------------------------------------------------
\* Graph notions the properties refer to
\* ------------------------------------------------------------------------

\* The state is the result of a full recompute pass.
Recomputed == passes >= 1

\* the links of the store
StoredLinks == LinkObjects(Model)

Successors(S) == {l.to_factor : l \in {x \in StoredLinks : x.from_factor \in S}}

RECURSIVE Grow(_)
Grow(S) == IF Successors(S) \subseteq S THEN S ELSE Grow(S \cup Successors(S))

\* the factors reachable from u via one or more links
Descendants(u) == Grow(Successors({u}))

\* the factors from which n is reachable via one or more links
Ancestors(n) == {u \in FactorNames : n \in Descendants(u)}

Acyclic == \A f \in FactorNames : f \notin Descendants(f)

Count(s, x) == Cardinality({i \in 1..Len(s) : s[i] = x})

\* some registered cycle contains u immediately followed by v
OnRegisteredCycle(l) ==
    \E n \in 1..Len(cycle_list) : \E i \in 1..(Len(cycle_list[n]) - 1) :
       /\ cycle_list[n][i] = l.from_factor
       /\ cycle_list[n][i + 1] = l.to_factor

\* ------------------------------------------------------------------------
\* Properties
\* ------------------------------------------------------------------------

\* C1: after a full recompute the predecessors list of every factor, read
\* as a set, is exactly the set of factors from which it is reachable via
\* one or more links.
C1_PredecessorsAreClosure ==
    Recomputed =>
       \A n \in Range(factors) : Range(predecessors[n]) = Ancestors(n)

\* C2: after a full recompute a link u -> v is flagged as feedback iff it
\* lies on a directed cycle, i.e. u is v or u is reachable from v.
C2_FeedbackIffOnCycle ==
    Recomputed =>
       \A l \in StoredLinks :
          (l \in is_feedback) <=>
             (l.from_factor = l.to_factor
                \/ l.from_factor \in Descendants(l.to_factor))

\* C3: after a full recompute a link u -> v is flagged as feedback iff v is
\* an element of the predecessors list of u.
C3_FeedbackIffInPredecessors ==
    Recomputed =>
       \A l \in StoredLinks :
          (l \in is_feedback) <=>
             (l.to_factor \in Range(predecessors[l.from_factor]))

C3_Witness ==
    /\ Recomputed
    /\ \E l \in StoredLinks : l \in is_feedback
    /\ \E l \in StoredLinks : l \notin is_feedback

\* C4: after a full recompute of a graph without a directed cycle the cycle
\* list is empty and no link is flagged as feedback.
C4_AcyclicHasNoFeedback ==
    (Recomputed /\ Acyclic) =>
       /\ cycle_list = <<>>
       /\ \A l \in StoredLinks : l \notin is_feedback

C4_Witness ==
    /\ Recomputed
    /\ Acyclic
    /\ \E f \in Range(factors) : Len(outputs[f]) >= 2
    /\ \E f \in Range(factors) : Len(inputs[f]) >= 1 /\ Len(outputs[f]) >= 1

\* C5: after a full recompute a link u -> v is flagged as feedback iff some
\* cycle of the cycle list contains u immediately followed by v, which is
\* when its cycleNumbers (all cycles shown) is not empty.
C5_ClassifierAgreesWithRegistry ==
    Recomputed =>
       \A l \in StoredLinks :
          /\ (l \in is_feedback) <=> OnRegisteredCycle(l)
          /\ (l \in is_feedback) <=> (CycleNumbers(Model, l) # {})

\* C6: after a full recompute of a graph with a self-loop A -> A the cycle
\* list holds the path [A, A] exactly once and the self-loop is flagged as
\* feedback.
C6_SelfLoopRegisteredOnce ==
    Recomputed =>
       \A l \in StoredLinks :
          l.from_factor = l.to_factor =>
             /\ Count(cycle_list, <<l.from_factor, l.from_factor>>) = 1
             /\ l \in is_feedback

\* C7: after a full recompute of the graph whose links are A -> B and
\* B -> A, for distinct A and B, the cycle list holds exactly one cycle, of
\* length 3 over A and B, and both links are flagged as feedback.
C7_MutualLinkOneCycle ==
    \A a \in FactorNames, b \in FactorNames :
       (a # b /\ Recomputed /\ StoredLinks = {Link(a, b), Link(b, a)}) =>
          /\ Len(cycle_list) = 1
          /\ Len(cycle_list[1]) = 3
          /\ Range(cycle_list[1]) = {a, b}
          /\ {Link(a, b), Link(b, a)} \subseteq is_feedback

C7_Witness ==
    /\ last_op = <<"cleanUpFeedbackLinks">>
    /\ StoredLinks = {Link(2, 1), Link(1, 2)}
    /\ Len(cycle_list) = 1

\* C8: after a full recompute of the ring 1 -> 2 -> 3 -> 1 with the
\* unrelated link 4 -> 5 the cycle list holds exactly the ring, the ring
\* links are flagged as feedback and 4 -> 5 is not; after deleteLink of a
\* ring link the cycle list is empty and no remaining link is flagged.
C8_RingAndBrokenRing ==
    /\ (Recomputed /\ StoredLinks = RingDiagram) =>
          /\ Len(cycle_list) = 1
          /\ Len(cycle_list[1]) = 4
          /\ Range(cycle_list[1]) = {1, 2, 3}
          /\ \A l \in RingDiagram : (l \in is_feedback) <=> (l \in RingLinks)
    /\ \A r \in RingLinks :
          (last_op = <<"deleteLink">> /\ StoredLinks = RingDiagram \ {r}) =>
             /\ cycle_list = <<>>
             /\ \A l \in StoredLinks : l \notin is_feedback

C8_Witness ==
    /\ last_op = <<"deleteLink">>
    /\ StoredLinks = RingDiagram \ {Link(1, 2)}
    /\ cycle_list = <<>>

\* C9: a recompute pass that follows a recompute pass without a mutation in
\* between leaves the cycle list (content and order), the feedback flags
\* and the predecessor set of every factor unchanged.
C9_RecomputeIdempotent ==
    [][(Recomputed /\ last_op' = <<"cleanUpFeedbackLinks">>) =>
          /\ cycle_list' = cycle_list
          /\ is_feedback' = is_feedback
          /\ \A f \in FactorNames :
                Range(predecessors'[f]) = Range(predecessors[f])]_vars

C9_Witness ==
    /\ passes >= 2
    /\ last_op = <<"cleanUpFeedbackLinks">>
    /\ Len(cycle_list) >= 1
    /\ \E l \in StoredLinks : l \in is_feedback
    /\ \E l \in StoredLinks : l \notin is_feedback

\* C10: addLink of an existing link leaves the link store and the inputs
\* and outputs lists unchanged, addLink of a new link appends one link to
\* the store, to the outputs of its FROM factor and to the inputs of its TO
\* factor; in every state no link is stored twice and every stored link
\* occurs exactly once in the outputs of its FROM factor and exactly once
\* in the inputs of its TO factor.
C10_LinkStoreConsistent ==
    \A id \in DOMAIN links :
       /\ \A other \in DOMAIN links : links[id] = links[other] => id = other
       /\ Count(outputs[links[id].from_factor], links[id]) = 1
       /\ Count(inputs[links[id].to_factor], links[id]) = 1

C10_AddLinkStep ==
    /\ last_op' = <<"addLink", "existing">> =>
          links' = links /\ outputs' = outputs /\ inputs' = inputs
    /\ last_op' = <<"addLink", "new">> =>
          \E from_f \in Range(factors), to_f \in Range(factors) :
             LET l == Link(from_f, to_f) IN
             /\ l \notin StoredLinks
             /\ DOMAIN links' = DOMAIN links \cup {Identifier(Model, l)}
             /\ links'[Identifier(Model, l)] = l
             /\ \A id \in DOMAIN links : links'[id] = links[id]
             /\ outputs' = [outputs EXCEPT ![from_f] = Append(@, l)]
             /\ inputs' = [inputs EXCEPT ![to_f] = Append(@, l)]

C10_AddLinkNeverDuplicates ==
    [] C10_LinkStoreConsistent /\ [][C10_AddLinkStep]_vars

C10_Witness ==
    /\ last_op = <<"addLink", "existing">>
    /\ Cardinality(StoredLinks) >= 2
    /\ \E f \in Range(factors) : Len(outputs[f]) >= 2

\* t is the list s with one occurrence of x taken out, the other entries
\* in their order
RemovedOnce(s, t, x) ==
    \E i \in 1..Len(s) :
       s[i] = x /\ t = SubSeq(s, 1, i - 1) \o SubSeq(s, i + 1, Len(s))

\* C11: deleteLink(e) removes e from the outputs of its FROM factor, from
\* the inputs of its TO factor and from the link store, and leaves every
\* other stored link, every other entry of every outputs and inputs list
\* (in its order) and the factors (with their codes) as they were.
C11_DeleteLinkStep ==
    last_op' = <<"deleteLink">> =>
       \E e \in StoredLinks :
          /\ DOMAIN links' = DOMAIN links \ {Identifier(Model, e)}
          /\ \A id \in DOMAIN links' : links'[id] = links[id]
          /\ \A f \in FactorNames :
                /\ IF f = e.from_factor
                   THEN RemovedOnce(outputs[f], outputs'[f], e)
                   ELSE outputs'[f] = outputs[f]
                /\ IF f = e.to_factor
                   THEN RemovedOnce(inputs[f], inputs'[f], e)
                   ELSE inputs'[f] = inputs[f]
                /\ e \notin Range(outputs'[f]) \cup Range(inputs'[f])
          /\ factors' = factors
          /\ code' = code
          /\ next_factor_number' = next_factor_number

C11_DeleteLinkFrame == [][C11_DeleteLinkStep]_vars

\* a link was deleted and left two other links behind in the outputs of
\* one factor
C11_Witness ==
    /\ last_op = <<"deleteLink">>
    /\ Cardinality(StoredLinks) >= 2
    /\ \E f \in Range(factors) : Len(outputs[f]) >= 2

\* C12: in every state reached by addFactor, addLink, deleteLink and
\* deleteFactor the FROM and the TO factor of every stored link and of
\* every entry of the outputs and inputs list of a stored factor are
\* factors of the store, and a deleteFactor step leaves no stored link and
\* no list entry that has the deleted factor as its FROM or TO factor.
C12_LinksJoinStoredFactors ==
    /\ \A l \in StoredLinks :
          l.from_factor \in Range(factors) /\ l.to_factor \in Range(factors)
    /\ \A f \in Range(factors) :
          \A l \in Range(outputs[f]) \cup Range(inputs[f]) :
             l.from_factor \in Range(factors) /\ l.to_factor \in Range(factors)

C12_DeleteFactorStep ==
    last_op' = <<"deleteFactor">> =>
       \A node \in Range(factors) \ Range(factors') :
          /\ \A l \in LinkObjects(Model)' :
                l.from_factor # node /\ l.to_factor # node
          /\ \A f \in Range(factors') :
                \A l \in Range(outputs'[f]) \cup Range(inputs'[f]) :
                   l.from_factor # node /\ l.to_factor # node

C13_DerivedDataFresh ==
    last_op[1] \in {"completeConnection", "pasteSelection", "deleteSelection"} =>
       LET r == CleanUpFeedbackLinks(Model) IN
       /\ is_feedback \cap StoredLinks = r.is_feedback \cap StoredLinks
       /\ paper = r.is_feedback \cap StoredLinks
       /\ predecessors = r.predecessors
       /\ path_matrix = r.path_matrix
       /\ cycle_list = r.cycle_list

\* C14: after a recompute a factor is in its own predecessor list if and
\* only if it lies on a directed cycle of the stored links.
C14_SelfPredecessorIffOnCycle ==
    Recomputed =>
       \A n \in Range(factors) :
          (IndexOf(predecessors[n], n) >= 0) <=> (n \in Descendants(n))

\* the recorded paths, under any origin
RecordedPaths == UNION {Range(e.paths) : e \in Range(path_matrix)}

\* l is the final step of a recorded path whose first and last factor are
\* equal
ClosesRecordedPath(l) ==
    \E p \in RecordedPaths :
       /\ Len(p) >= 2
       /\ p[1] = p[Len(p)]
       /\ p[Len(p) - 1] = l.from_factor
       /\ p[Len(p)] = l.to_factor

\* C15: after a recompute a link is marked feedback if and only if it is
\* the final step of a path recorded in path_matrix whose first and last
\* factor are equal.
C15_FeedbackIffClosingEdge ==
    Recomputed =>
       \A l \in StoredLinks : (l \in is_feedback) <=> ClosesRecordedPath(l)

\* The simple paths of the stored links that start with the path p, and
\* the paths that return to the first factor of p (these are not extended).
ClosedPath(p) == Len(p) >= 2 /\ p[1] = p[Len(p)]

RECURSIVE PathsExtending(_)
PathsExtending(p) ==
    IF ClosedPath(p) THEN {p}
    ELSE {p} \cup
         UNION {PathsExtending(Append(p, t)) :
                  t \in {x \in Successors({p[Len(p)]}) :
                           x \notin Range(p) \/ x = p[1]}}

\* the paths with at least one link that start in factor k
PathsFrom(k) == PathsExtending(<<k>>) \ {<<k>>}

\* the elementary cycles of the stored links, as closed paths
ElementaryCycles ==
    UNION {{p \in PathsFrom(k) : ClosedPath(p)} : k \in Range(factors)}

\* C18: after a recompute path_matrix[k] holds, for every factor k, the
\* path [k, t] of every outgoing link k->t and every simple path that
\* extends one of them, the paths that return to k included, however many
\* outgoing links k has.
C18_EnumeratorExhaustive ==
    Recomputed =>
       \A k \in Range(factors) : PathsFrom(k) \subseteq Range(PathsOf(Model, k))

\* C19: after a recompute cycle_list holds, for every elementary cycle of
\* the stored links, a cycle of the same length with the same set of
\* factors.
C19_RegistryComplete ==
    Recomputed =>
       \A p \in ElementaryCycles :
          \E n \in 1..Len(cycle_list) :
             /\ Len(cycle_list[n]) = Len(p)
             /\ Range(cycle_list[n]) = Range(p)

\* the recorded paths in the iteration order of the registry: the entries
\* of path_matrix in their order, the paths of an entry in their order
RECURSIVE PathsInOrder(_)
PathsInOrder(n) ==
    IF n > Len(path_matrix) THEN <<>>
    ELSE path_matrix[n].paths \o PathsInOrder(n + 1)

\* the recorded paths whose first and last factor are equal, in that order
Candidates == SelectSeq(PathsInOrder(1), ClosedPath)

\* the set-equality rule: equal length and the same set of factors
SameFactorSet(p, c) == Len(p) = Len(c) /\ Range(p) = Range(c)

\* C20: after a recompute no two entries of cycle_list have equal length
\* and the same set of factors, and every recorded path whose first and
\* last factor are equal is an entry of cycle_list or has the length and
\* the set of factors of an entry that is a candidate before it in the
\* iteration order.
C20_RegistryDuplicateFreeAndCovering ==
    Recomputed =>
       /\ \A i, j \in 1..Len(cycle_list) :
             SameFactorSet(cycle_list[i], cycle_list[j]) => i = j
       /\ \A n \in 1..Len(Candidates) :
             \/ Candidates[n] \in Range(cycle_list)
             \/ \E j \in 1..(n - 1) :
                   /\ Candidates[j] \in Range(cycle_list)
                   /\ SameFactorSet(Candidates[n], Candidates[j])

\* two cycles are registered and a third candidate, the other rotation of
\* one of them, is not
C20_Witness ==
    /\ Recomputed
    /\ Len(cycle_list) >= 2
    /\ \E n \in 1..Len(Candidates) : Candidates[n] \notin Range(cycle_list)

\* the model with the derived data of a model that was never analysed
Scrubbed(m) ==
    [m EXCEPT !.predecessors = NewModel.predecessors,
              !.visited = NewModel.visited,
              !.is_feedback = NewModel.is_feedback,
              !.path_matrix = NewModel.path_matrix,
              !.cycle_list = NewModel.cycle_list]

\* C16: a recompute pass ends with the predecessor lists, visited marks,
\* feedback flags, path_matrix and cycle_list that the pass gives for the
\* same factors, links, outputs and inputs with empty predecessor lists, no
\* visited marks, no feedback flags and an empty path_matrix and
\* cycle_list: what these held before the pass does not matter.
C16_RecomputeStep ==
    last_op' = <<"cleanUpFeedbackLinks">> =>
       LET r == CleanUpFeedbackLinks(Scrubbed(Model)) IN
       /\ predecessors' = r.predecessors
       /\ visited' = r.visited
       /\ is_feedback' = r.is_feedback
       /\ path_matrix' = r.path_matrix
       /\ cycle_list' = r.cycle_list

C16_RecomputeFromScratch == [][C16_RecomputeStep]_vars

\* derived data of an earlier graph is in place (a feedback flag, visited
\* marks, a registered cycle) and the recompute pass changes the flags and
\* the cycle list
C16_Witness ==
    /\ passes = 0
    /\ is_feedback # {}
    /\ visited # {}
    /\ cycle_list # <<>>
    /\ CleanUpFeedbackLinks(Model).is_feedback # is_feedback
    /\ CleanUpFeedbackLinks(Model).cycle_list # cycle_list

\* some stored link has a FROM or TO factor that is not in the store
Dangling ==
    \E l \in StoredLinks :
       l.from_factor \notin Range(factors) \/ l.to_factor \notin Range(factors)

\* C17: a recompute pass on a store in which some link has a FROM or TO
\* factor that is not in the store ends with an internal-consistency error,
\* and it leaves every predecessor list and cycle_list as they were or
\* without any factor that is not in the store, and the feedback flags as
\* they were.
C17_DanglingStep ==
    (Dangling /\ last_op'[1] = "cleanUpFeedbackLinks") =>
       /\ last_op' = <<"cleanUpFeedbackLinks", "internal-consistency error">>
       /\ \A f \in Range(factors) :
             \/ predecessors'[f] = predecessors[f]
             \/ Range(predecessors'[f]) \subseteq Range(factors)
       /\ \/ cycle_list' = cycle_list
          \/ \A n \in 1..Len(cycle_list') :
                Range(cycle_list'[n]) \subseteq Range(factors)
       /\ is_feedback' = is_feedback

C21_TwoRingsMerged ==
    (Recomputed /\ StoredLinks = TwoRingsDiagram) =>
       Cardinality({n \in 1..Len(cycle_list) :
                      Len(cycle_list[n]) = 4 /\
                      Range(cycle_list[n]) = {1, 2, 3}}) = 1

\* both rings are in the store and path_matrix records a closed path along
\* each of them: factor 1 is followed by 2 in one and by 3 in the other
C21_Witness ==
    /\ Recomputed
    /\ StoredLinks = TwoRingsDiagram
    /\ \E p \in RecordedPaths, q \in RecordedPaths :
          /\ ClosedPath(p) /\ Len(p) = 4
          /\ ClosedPath(q) /\ Len(q) = 4
          /\ \E i \in 1..3, j \in 1..3 :
                p[i] = 1 /\ q[j] = 1 /\ p[i + 1] = 2 /\ q[j + 1] = 3

\* C22: a makePredecessorLists pass ends, and during the pass
\* setPredecessors makes its recursive call at most once for each link and
\* only for stored links, so at most as many calls as there are links; the
\* links at which it recursed are the ones that carry the visited mark.
C22_RecursionOncePerLink ==
    Recomputed =>
       /\ \A l \in Range(recursed) : Count(recursed, l) = 1
       /\ Range(recursed) \subseteq StoredLinks
       /\ Len(recursed) <= Cardinality(StoredLinks)
       /\ Range(recursed) = visited \cap StoredLinks

\* a pass over a graph with a cycle in which some factor has two inputs
C22_Witness ==
    /\ Recomputed
    /\ ~Acyclic
    /\ Len(recursed) >= 3
    /\ \E f \in Range(factors) : Len(inputs[f]) >= 2

\* C23: buildPathMatrix ends, and no recorded path holds a factor twice
\* except that its last factor may be its first one, so no recorded path
\* is longer than the number of factors plus one (the chain of recursive
\* calls of sproutPathsFrom that made it is shorter than the path).
C23_PathsBounded ==
    Recomputed =>
       \A p \in RecordedPaths :
          /\ \A i, j \in 1..Len(p) :
                (p[i] = p[j] /\ i < j) => (i = 1 /\ j = Len(p))
          /\ Len(p) <= Cardinality(Range(factors)) + 1

\* a cyclic graph in which paths through all three factors are recorded,
\* one of them closed and one not
C23_Witness ==
    /\ Recomputed
    /\ \E p \in RecordedPaths : Len(p) = 4 /\ ClosedPath(p)
    /\ \E p \in RecordedPaths : Len(p) = 3 /\ ~ClosedPath(p)

\* C24: every path recorded in path_matrix has at least two factors, every
\* two consecutive factors of it are joined by a stored link, and no factor
\* occurs twice in it except that the last may equal the first; every
\* entry of cycle_list is such a path and its last factor is its first.
SoundPath(p) ==
    /\ Len(p) >= 2
    /\ \A i \in 1..(Len(p) - 1) : Link(p[i], p[i + 1]) \in StoredLinks
    /\ \A i, j \in 1..Len(p) : (p[i] = p[j] /\ i < j) => (i = 1 /\ j = Len(p))

C24_PathsSound ==
    /\ \A p \in RecordedPaths : SoundPath(p)
    /\ \A n \in 1..Len(cycle_list) :
          SoundPath(cycle_list[n]) /\ ClosedPath(cycle_list[n])

\* a link of a registered cycle was deleted, and paths and a cycle of the
\* links that are left are recorded
C24_Witness ==
    /\ last_op = <<"deleteLink">>
    /\ Len(cycle_list) >= 1
    /\ \E p \in RecordedPaths : ~ClosedPath(p)
    /\ Cardinality(StoredLinks) >= 2

DerivedDataFresh ==
    LET r == CleanUpFeedbackLinks(Model) IN
    /\ predecessors = r.predecessors
    /\ visited = r.visited
    /\ is_feedback = r.is_feedback
    /\ path_matrix = r.path_matrix
    /\ cycle_list = r.cycle_list

\* the step leaves the predecessor lists, the flags of the links that were
\* and still are stored, path_matrix and cycle_list as they were
DerivedDataUnchanged ==
    /\ predecessors' = predecessors
    /\ \A l \in StoredLinks \cap LinkObjects(Model)' :
          /\ (l \in is_feedback') = (l \in is_feedback)
          /\ (l \in visited') = (l \in visited)
    /\ path_matrix' = path_matrix
    /\ cycle_list' = cycle_list

\* C26: addLink and deleteLink leave the predecessor list of every factor,
\* the is_feedback and visited fields of every remaining link, cycle_list
\* and path_matrix unchanged.
C26_StoreStepsKeepDerivedData ==
    [][last_op'[1] \in {"addLink", "deleteLink"} => DerivedDataUnchanged]_vars

\* C26 as the code has it: addLink leaves the derived data unchanged (a new
\* link starts with both fields false), and deleteLink ends with the
\* derived data of a full recompute of the store without the link.
C26_DeleteLinkRecomputes == last_op = <<"deleteLink">> => DerivedDataFresh

C26_AddLinkStep ==
    last_op'[1] = "addLink" =>
       /\ DerivedDataUnchanged
       /\ \A l \in LinkObjects(Model)' \ StoredLinks :
             l \notin is_feedback' /\ l \notin visited'

C26_AddLinkKeepsDeleteLinkRecomputes ==
    [] C26_DeleteLinkRecomputes /\ [][C26_AddLinkStep]_vars

\* a link was deleted and the recompute of deleteLink left a registered
\* cycle and a feedback link among the remaining links
C26_Witness ==
    /\ last_op = <<"deleteLink">>
    /\ Len(cycle_list) >= 1
    /\ \E l \in StoredLinks : l \in is_feedback
    /\ \E l \in StoredLinks : l \notin is_feedback

\* C27: of two recomputed states, the second being the first with a link
\* added and recomputed, every link marked feedback in the first is marked
\* in the second; the second being the first with a link deleted (and
\* recomputed), every remaining link marked feedback in the second is
\* marked in the first.
C27_FeedbackMonotone ==
    Recomputed =>
       /\ \A from_f \in Range(factors), to_f \in Range(factors) :
             LET r == CleanUpFeedbackLinks(AddLinkModel(Model, from_f, to_f))
             IN is_feedback \cap StoredLinks \subseteq r.is_feedback
       /\ \A e \in StoredLinks :
             LET r == DeleteLinkModel(Model, e)
             IN r.is_feedback \cap LinkObjects(r) \subseteq is_feedback


\* C30: the cycle selection index stays valid: selected_cycle is -1 or an
\* index of cycle_list, whatever clicks on the cycle button, link additions,
\* link deletions and recomputes happened.
C30_SelectedCycleValid ==
    selected_cycle = -1 \/
       (0 <= selected_cycle /\ selected_cycle < Len(cycle_list))


\* C28: completeConnection calls MODEL.addLink only with two factors, never
\* with a cluster or null, whatever rim events and sub-factor selections
\* came before, also when both nodes of the gesture are clusters and one
\* sub-factor has been chosen.
C28_AddLinkOnlyFactors ==
    Len(add_link_args) > 0 =>
       IsFactor(add_link_args[1]) /\ IsFactor(add_link_args[2])

\* UI.to_node is null, or a node other than UI.from_node that is not linked
\* with it
C29_TargetValid ==
    to_node = NoNode \/
       (to_node # from_node /\ ~AreLinked(Model, from_node, to_node))

\* the release of the mouse button adds at most the link from UI.from_node
\* to UI.to_node, which is no self-loop and joins no pair linked before
C29_ReleaseStep ==
    (last_op' = <<"stopMakeConnection">> /\ links' # links) =>
       /\ IsFactor(from_node) /\ IsFactor(to_node)
       /\ from_node # to_node
       /\ ~AreLinked(Model, from_node, to_node)
       /\ (LinkObjects(Model))' = StoredLinks \cup {Link(from_node.id, to_node.id)}

\* C29: the connect gesture between two visible factors never creates a
\* self-loop and never links a pair that is already linked in either
\* direction: at the release of the mouse UI.to_node is null or a node other
\* than UI.from_node that was not linked with it, and completeConnection adds
\* no link A->A and no link A->B when A->B or B->A exists.
C29_NoSelfLoopNoDouble == []C29_TargetValid /\ [][C29_ReleaseStep]_vars

\* a release that added a link from a factor that had a link already
C29_Witness ==
    /\ last_op = <<"stopMakeConnection">>
    /\ Len(add_link_args) > 0
    /\ Link(add_link_args[1].id, add_link_args[2].id) \in StoredLinks
    /\ \E l \in StoredLinks :
          /\ l # Link(add_link_args[1].id, add_link_args[2].id)
          /\ add_link_args[1].id \in {l.from_factor, l.to_factor}

====
